---- MODULE Spec2Model ----
(***************************************************************************)
(* Stabilizer State Benchmark (stabilizer-states/stabilizer_benchmark.py). *)
(*                                                                         *)
(* Five functions of the benchmark are modelled, each with a specification *)
(* of its own whose Init draws the function's arguments:                   *)
(*   SpecCircuit  StabilizerCircuit      (layers, greedy edge selection)   *)
(*   SpecSampler  random_stabilizer      (product of stabilizer generators)*)
(*   SpecMeasure  append_measurement     (basis change and measurement)    *)
(*   SpecAnalyze  analyze_and_print_result (parity buckets and fidelity)   *)
(*   SpecRun      run                    (the benchmark loop)              *)
(* A variable a specification does not use keeps its idle value.           *)
(***************************************************************************)
EXTENDS Integers, Sequences, FiniteSets, TLC

VARIABLES
    pc,              \* position of the function being executed
    \* ---- StabilizerCircuit
    num_qubits,      \* argument num_qubits
    graph_arg,       \* argument coupling_graph: None or a set of edges <<a, b>>
    n_layers,        \* argument n_layers
    method,          \* argument method
    coupling_graph,  \* the set of frozenset edges kept at line 35
    layer,           \* loop variable of line 39
    cg_temp,         \* the edges still available in the layer
    circuit,         \* the instructions of the QuantumCircuit, in order
    \* ---- random_stabilizer
    cliff,           \* argument cliff: [num_qubits, stabilizer]
    m,               \* the integer drawn at line 65
    stabilizer,      \* the Pauli returned
    \* ---- append_measurement
    pauli_arg,       \* argument stabilizer (a Pauli)
    circuit_copy,    \* the instructions appended to circuit.copy()
    mmt_qubits,      \* the list of measured qubits
    cl,              \* the size of the ClassicalRegister, -1 before it exists
    raised,          \* the exception that ended the call, "none" otherwise
    \* ---- analyze_and_print_result
    counts,          \* result.get_counts(qc): bitstring -> count
    shots,           \* result.results[0].shots, the declared number of shots
    exp_dist,        \* the parity distribution built at lines 130-134
    fidelity,        \* the fidelity returned, as a fraction <<num, den>>
    \* ---- run
    run_args,        \* the arguments [min_qubits, max_qubits, max_circuits]
    min_qubits,      \* min_qubits after line 153
    max_qubits,      \* max_qubits after line 152
    run_n,           \* loop variable num_qubits of line 178
    run_j,           \* loop variable j of line 185
    log              \* the calls made to the execution harness, in order

scVars == <<num_qubits, graph_arg, n_layers, method, coupling_graph, layer, cg_temp, circuit>>
rsVars == <<cliff, m, stabilizer>>
amVars == <<pauli_arg, circuit_copy, mmt_qubits, cl, raised>>
anVars == <<counts, shots, exp_dist, fidelity>>
rnVars == <<run_args, min_qubits, max_qubits, run_n, run_j, log>>
vars == <<pc, scVars, rsVars, amVars, anVars, rnVars>>

(***************************************************************************)
(* Bounds of the model.                                                    *)
(***************************************************************************)
\* largest num_qubits of StabilizerCircuit; edges name qubits 0..MaxQubits
MaxQubits == 4
\* largest number of edges of a coupling graph handed to StabilizerCircuit
MaxEdges == 3
\* largest n_layers of StabilizerCircuit
MaxLayers == 2
\* largest number of qubits of a Clifford handed to random_stabilizer
MaxSysQubits == 2
\* largest number of qubits of a Pauli handed to append_measurement
MaxPauliQubits == 3
\* longest bitstring of a count distribution
MaxBits == 2
\* largest number of bitstrings of a count distribution
MaxKeys == 3
\* largest count of a bitstring
MaxCount == 2
\* largest declared number of shots
MaxShots == 4
\* largest min_qubits and max_qubits handed to run
MaxRunQubits == 4
\* largest max_circuits handed to run
MaxCircuits == 2

(***************************************************************************)
(* Idle values of the variables a specification does not use.              *)
(***************************************************************************)
IdleCircuit ==
    /\ num_qubits = 0 /\ graph_arg = <<>> /\ n_layers = 0 /\ method = 0
    /\ coupling_graph = {} /\ layer = 0 /\ cg_temp = {} /\ circuit = <<>>

IdleSampler ==
    /\ cliff = <<>> /\ m = 0 /\ stabilizer = <<>>

IdleMeasure ==
    /\ pauli_arg = <<>> /\ circuit_copy = <<>> /\ mmt_qubits = <<>>
    /\ cl = -1 /\ raised = "none"

IdleAnalyze ==
    /\ counts = <<>> /\ shots = 0 /\ exp_dist = <<>> /\ fidelity = <<>>

IdleRun ==
    /\ run_args = <<>> /\ min_qubits = 0 /\ max_qubits = 0
    /\ run_n = 0 /\ run_j = 0 /\ log = <<>>

(***************************************************************************)
(* StabilizerCircuit(num_qubits, coupling_graph, n_layers, method)         *)
(*                                                                         *)
(* An edge handed in is a tuple <<a, b>> of two different qubit indices;   *)
(* the indices may lie outside range(num_qubits).  method is 1 (cz) or 2   *)
(* (random two-qubit Clifford).  A gate of the circuit is [op, qubits];    *)
(* which Clifford random_clifford draws is not recorded.                   *)
(***************************************************************************)
Gate(op, qs) == [op |-> op, qubits |-> qs]

\* the tuples an edge can be: two different indices, the smaller first
EdgeTuples == {e \in (0..MaxQubits) \X (0..MaxQubits) : e[1] < e[2]}

\* the coupling graphs handed in; none is the argument None
NoGraph == [none |-> TRUE, edges |-> {}]

CouplingGraphs ==
    {[none |-> FALSE, edges |-> g] : g \in {g \in SUBSET EdgeTuples : Cardinality(g) <= MaxEdges}}

\* itertools.combinations(qubits, 2)
Combinations2(n) == {e \in (0..(n - 1)) \X (0..(n - 1)) : e[1] < e[2]}

\* frozenset(edge)
Frozenset(edge) == {edge[1], edge[2]}

\* NormalisedGraph without the filter of line 35
NormalisedGraph_Unfiltered(arg, n) ==
    LET given == IF arg.none THEN Combinations2(n) ELSE arg.edges
    IN  {Frozenset(edge) : edge \in given}

\* lines 33-35: the default graph, and the edges with both ends in range
NormalisedGraph(arg, n) ==
    LET given == IF arg.none THEN Combinations2(n) ELSE arg.edges
    IN  {Frozenset(edge) : edge \in {e \in given : e[1] \in 0..(n - 1) /\ e[2] \in 0..(n - 1)}}

\* RemoveTouching that removes the sampled edge alone
RemoveTouching_OnlyEdge(cg, edge) == cg \ {edge}

\* line 53: cg_temp without the edges that share a qubit with edge
RemoveTouching(cg, edge) == cg \ {e \in cg : e \cap edge # {}}

\* lines 48-52: the two-qubit gate of the method
TwoQubitGate(meth, edge) ==
    IF meth = 1 THEN <<Gate("cz", edge)>>
    ELSE IF meth = 2 THEN <<Gate("clifford2", edge)>>
    ELSE <<>>

InitCircuit ==
    /\ pc = "StabilizerCircuit"
    /\ num_qubits \in 2..MaxQubits
    /\ graph_arg \in {NoGraph} \cup CouplingGraphs
    /\ n_layers \in 0..MaxLayers
    /\ method \in {1, 2}
    /\ coupling_graph = {} /\ layer = 0 /\ cg_temp = {} /\ circuit = <<>>
    /\ IdleSampler /\ IdleMeasure /\ IdleAnalyze /\ IdleRun

\* lines 31-37
StabilizerCircuitBegin ==
    /\ pc = "StabilizerCircuit"
    /\ coupling_graph' = NormalisedGraph(graph_arg, num_qubits)
    /\ circuit' = <<>>
    /\ layer' = 0
    /\ pc' = "layer"
    /\ UNCHANGED <<num_qubits, graph_arg, n_layers, method, cg_temp,
                   rsVars, amVars, anVars, rnVars>>

\* lines 39-44: a random single-qubit Clifford on every qubit, then a barrier
LayerBegin ==
    /\ pc = "layer"
    /\ layer < n_layers
    /\ cg_temp' = coupling_graph
    /\ circuit' = circuit \o [q \in 1..num_qubits |-> Gate("clifford1", {q - 1})]
                          \o <<Gate("barrier", {})>>
    /\ pc' = "edges"
    /\ UNCHANGED <<num_qubits, graph_arg, n_layers, method, coupling_graph, layer,
                   rsVars, amVars, anVars, rnVars>>

\* lines 46-53: one pass of the while loop
SampleEdge ==
    /\ pc = "edges"
    /\ Cardinality(cg_temp) > 0
    /\ \E edge \in cg_temp :
          /\ circuit' = circuit \o TwoQubitGate(method, edge)
          /\ cg_temp' = RemoveTouching(cg_temp, edge)
    /\ UNCHANGED <<pc, num_qubits, graph_arg, n_layers, method, coupling_graph, layer,
                   rsVars, amVars, anVars, rnVars>>

\* line 55: the while loop has ended
LayerEnd ==
    /\ pc = "edges"
    /\ Cardinality(cg_temp) = 0
    /\ circuit' = Append(circuit, Gate("barrier", {}))
    /\ layer' = layer + 1
    /\ pc' = "layer"
    /\ UNCHANGED <<num_qubits, graph_arg, n_layers, method, coupling_graph, cg_temp,
                   rsVars, amVars, anVars, rnVars>>

\* lines 57-61: the circuit of the layers is complete.  The stabilizer drawn
\* from it and the measurement appended to it are modelled by
\* random_stabilizer and append_measurement.
StabilizerCircuitReturn ==
    /\ pc = "layer"
    /\ layer >= n_layers
    /\ pc' = "returned"
    /\ UNCHANGED <<scVars, rsVars, amVars, anVars, rnVars>>

NextCircuit ==
    \/ StabilizerCircuitBegin
    \/ LayerBegin
    \/ SampleEdge
    \/ LayerEnd
    \/ StabilizerCircuitReturn

SpecCircuit == InitCircuit /\ [][NextCircuit]_vars

(***************************************************************************)
(* Pauli operators (qiskit.quantum_info.Pauli).  A Pauli on n qubits is    *)
(* [phase, sym]: the operator i^phase * sym[n] (x) ... (x) sym[1], where   *)
(* sym[q + 1] is the symbol on qubit q.                                    *)
(***************************************************************************)
Symbols == {"I", "X", "Y", "Z"}

Paulis(n) == [phase : 0..3, sym : [1..n -> Symbols]]

\* the product a.b of two single-qubit Pauli matrices: [phase, sym]
Mul1(a, b) ==
    CASE a = "I" -> [phase |-> 0, sym |-> b]
      [] b = "I" -> [phase |-> 0, sym |-> a]
      [] a = b   -> [phase |-> 0, sym |-> "I"]
      [] a = "X" /\ b = "Y" -> [phase |-> 1, sym |-> "Z"]
      [] a = "Y" /\ b = "Z" -> [phase |-> 1, sym |-> "X"]
      [] a = "Z" /\ b = "X" -> [phase |-> 1, sym |-> "Y"]
      [] a = "Y" /\ b = "X" -> [phase |-> 3, sym |-> "Z"]
      [] a = "Z" /\ b = "Y" -> [phase |-> 3, sym |-> "X"]
      [] a = "X" /\ b = "Z" -> [phase |-> 3, sym |-> "Y"]

RECURSIVE SumPhase(_, _, _)
SumPhase(a, b, q) ==
    IF q = 0 THEN 0 ELSE Mul1(a[q], b[q]).phase + SumPhase(a, b, q - 1)

\* the matrix product P.Q of two Paulis on the same qubits
Dot(P, Q) ==
    [phase |-> (P.phase + Q.phase + SumPhase(P.sym, Q.sym, Len(P.sym))) % 4,
     sym   |-> [q \in 1..Len(P.sym) |-> Mul1(P.sym[q], Q.sym[q]).sym]]

\* Pauli.compose(other): the operator other.self
PauliCompose(self, other) == Dot(other, self)

Reverse(s) == [i \in 1..Len(s) |-> s[Len(s) + 1 - i]]

\* the characters Pauli.to_label() puts before the symbols
PhasePrefix(k) ==
    CASE k = 0 -> <<>>
      [] k = 1 -> <<"i">>
      [] k = 2 -> <<"-">>
      [] k = 3 -> <<"-", "i">>

\* Pauli.to_label(): the phase, then the symbols from the last qubit to qubit 0
to_label(P) == PhasePrefix(P.phase) \o Reverse(P.sym)

\* cliff.stabilizer.to_labels()[idx]: a sign character, then the symbols
StabilizerLabel(P) == (IF P.phase = 2 THEN <<"-">> ELSE <<"+">>) \o Reverse(P.sym)

\* quantum_info.Pauli(label): the Pauli a label denotes
PauliFromLabel(lab) ==
    LET k == IF Len(lab) >= 2 /\ lab[1] = "-" /\ lab[2] = "i" THEN 3
             ELSE IF Len(lab) >= 1 /\ lab[1] = "-" THEN 2
             ELSE IF Len(lab) >= 1 /\ lab[1] = "i" THEN 1
             ELSE 0
        skip == IF k = 3 THEN 2
                ELSE IF Len(lab) >= 1 /\ lab[1] \in {"-", "i", "+"} THEN 1
                ELSE 0
    IN  [phase |-> k, sym |-> Reverse(SubSeq(lab, skip + 1, Len(lab)))]

(***************************************************************************)
(* Cliffords.  Only the stabilizer generators of a Clifford are read: n    *)
(* signed Paulis that commute with each other and are independent (no      *)
(* product of a non-empty subset of them is the identity).                 *)
(***************************************************************************)
RECURSIVE Pow2(_)
Pow2(n) == IF n = 0 THEN 1 ELSE 2 * Pow2(n - 1)

\* two strings of symbols commute when they differ on an even number of the
\* qubits on which neither is I
SymbolsCommute(a, b) ==
    Cardinality({q \in 1..Len(a) : a[q] # "I" /\ b[q] # "I" /\ a[q] # b[q]}) % 2 = 0

RECURSIVE SubsetProduct(_, _, _)
\* the product of the generators gens[i], i \in S (any order: they commute)
SubsetProduct(gens, S, n) ==
    IF S = {} THEN [phase |-> 0, sym |-> [q \in 1..n |-> "I"]]
    ELSE LET i == CHOOSE x \in S : TRUE
         IN  Dot(gens[i], SubsetProduct(gens, S \ {i}, n))

\* the symbols of the products of the subsets of the strings g
Span(g, n) ==
    {SubsetProduct([i \in 1..Len(g) |-> [phase |-> 0, sym |-> g[i]]], S, n).sym :
        S \in SUBSET (1..Len(g))}

RECURSIVE GeneratorSymbols(_, _)
\* the symbols of k generators on n qubits: commuting and independent
GeneratorSymbols(n, k) ==
    IF k = 0 THEN {<<>>}
    ELSE UNION {
           LET span == Span(g, n)
           IN  {Append(g, p) : p \in {p \in [1..n -> Symbols] :
                                         /\ p \notin span
                                         /\ \A i \in 1..Len(g) : SymbolsCommute(g[i], p)}} :
           g \in GeneratorSymbols(n, k - 1)}

\* every sign of every generator occurs
Cliffords(n) ==
    {[num_qubits |-> n,
      stabilizer |-> [i \in 1..n |-> [phase |-> s[i], sym |-> g[i]]]] :
        g \in GeneratorSymbols(n, n), s \in [1..n -> {0, 2}]}

(***************************************************************************)
(* random_stabilizer(cliff)                                                *)
(***************************************************************************)
\* RandInt with the lower end 0
RandInt_FromZero(n_sys) == 0..(Pow2(n_sys) - 1)

\* np.random.randint(1, 2 ** n_sys): the upper end is excluded
RandInt(n_sys) == 1..(Pow2(n_sys) - 1)

\* f'{{0:0{n_sys}b}}'.format(m): m in binary, at least n_sys digits, most
\* significant first
RECURSIVE Binary(_)
Binary(k) == IF k < 2 THEN <<k>> ELSE Append(Binary(k \div 2), k % 2)

RECURSIVE ZeroPad(_, _)
ZeroPad(s, w) == IF Len(s) >= w THEN s ELSE ZeroPad(<<0>> \o s, w)

RandomBitstring(k, n_sys) == ZeroPad(Binary(k), n_sys)

RECURSIVE ComposeSelected(_, _, _, _)
\* lines 68-71: the loop over enumerate(random_bitstring), from index idx on
ComposeSelected(acc, bits, c, idx) ==
    IF idx > Len(bits) THEN acc
    ELSE IF bits[idx] = 1
         THEN ComposeSelected(
                  PauliCompose(acc, PauliFromLabel(StabilizerLabel(c.stabilizer[idx]))),
                  bits, c, idx + 1)
         ELSE ComposeSelected(acc, bits, c, idx + 1)

InitSampler ==
    /\ pc = "random_stabilizer"
    /\ \E n \in 2..MaxSysQubits : cliff \in Cliffords(n)
    /\ m = 0
    /\ stabilizer = <<>>
    /\ IdleCircuit /\ IdleMeasure /\ IdleAnalyze /\ IdleRun

random_stabilizer ==
    /\ pc = "random_stabilizer"
    /\ LET n_sys == cliff.num_qubits IN
       \E k \in RandInt(n_sys) :
          /\ m' = k
          /\ stabilizer' = ComposeSelected(
                               [phase |-> 0, sym |-> [q \in 1..n_sys |-> "I"]],
                               RandomBitstring(k, n_sys), cliff, 1)
    /\ pc' = "returned"
    /\ UNCHANGED <<cliff, scVars, amVars, anVars, rnVars>>

NextSampler == random_stabilizer

SpecSampler == InitSampler /\ [][NextSampler]_vars

(***************************************************************************)
(* append_measurement(circuit, stabilizer)                                 *)
(*                                                                         *)
(* An instruction is [op, qubit, clbit]; qubit and clbit are -1 where the  *)
(* instruction has none.  circuit_copy holds the instructions appended to  *)
(* the copy of the circuit handed in.                                      *)
(***************************************************************************)
Instr(op, q, c) == [op |-> op, qubit |-> q, clbit |-> c]

\* lines 75-80: the label without its leading '-', and the phase
StripSign(label) ==
    IF label[1] = "-"
    THEN [s |-> SubSeq(label, 2, Len(label)), phase |-> -1]
    ELSE [s |-> label, phase |-> 1]

\* BasisChange with the two instructions of Y in the other order
BasisChange_HBeforeSdg(pauli, idx) ==
    (IF pauli = "X" THEN <<Instr("h", idx, -1)>> ELSE <<>>)
    \o (IF pauli = "Y" THEN <<Instr("h", idx, -1), Instr("sdg", idx, -1)>> ELSE <<>>)

\* lines 87-95: the instructions appended for the character pauli at idx
BasisChange(pauli, idx) ==
    (IF pauli = "X" THEN <<Instr("h", idx, -1)>> ELSE <<>>)
    \o (IF pauli = "Y" THEN <<Instr("sdg", idx, -1), Instr("h", idx, -1)>> ELSE <<>>)

\* IsMeasured without the branch of line 94
IsMeasured_NoZ(pauli) == pauli = "X" \/ pauli = "Y"

\* lines 87-95: whether idx is added to mmt_qubits for the character pauli
IsMeasured(pauli) == pauli = "X" \/ pauli = "Y" \/ pauli = "Z"

RECURSIVE BasisLoop(_, _, _)
\* lines 86-95: the loop over enumerate(reversed(stabilizer)), from position
\* i of the reversed string on (idx = i - 1)
BasisLoop(rev, i, acc) ==
    IF i > Len(rev) THEN acc
    ELSE BasisLoop(rev, i + 1,
            [instrs |-> acc.instrs \o BasisChange(rev[i], i - 1),
             mmt    |-> IF IsMeasured(rev[i]) THEN Append(acc.mmt, i - 1) ELSE acc.mmt])

\* PhaseFlip on the last measured qubit
PhaseFlip_Last(phase, mmt) ==
    IF phase = -1 THEN <<Instr("x", mmt[Len(mmt)], -1)>> ELSE <<>>

\* lines 97-98: the bit flip of a negative stabilizer (mmt is not empty)
PhaseFlip(phase, mmt) ==
    IF phase = -1 THEN <<Instr("x", mmt[1], -1)>> ELSE <<>>

\* lines 103-107: a barrier unless every character is Z or I
BasisBarrier(s) ==
    IF \A k \in 1..Len(s) : s[k] = "Z" \/ s[k] = "I"
    THEN <<>> ELSE <<Instr("barrier", -1, -1)>>

\* lines 109-110: qubit mmt[idx + 1] is measured into classical bit idx
Measurements(mmt) == [k \in 1..Len(mmt) |-> Instr("measure", mmt[k], k - 1)]

InitMeasure ==
    /\ pc = "append_measurement"
    /\ \E n \in 1..MaxPauliQubits : pauli_arg \in Paulis(n)
    /\ circuit_copy = <<>>
    /\ mmt_qubits = <<>>
    /\ cl = -1
    /\ raised = "none"
    /\ IdleCircuit /\ IdleSampler /\ IdleAnalyze /\ IdleRun

\* the call returns the circuit
append_measurement ==
    /\ pc = "append_measurement"
    /\ LET st   == StripSign(to_label(pauli_arg))
           loop == BasisLoop(Reverse(st.s), 1, [instrs |-> <<>>, mmt |-> <<>>])
       IN  /\ ~(st.phase = -1 /\ loop.mmt = <<>>)
           /\ mmt_qubits' = loop.mmt
           /\ cl' = Len(loop.mmt)
           /\ circuit_copy' = loop.instrs \o PhaseFlip(st.phase, loop.mmt)
                                  \o BasisBarrier(st.s) \o Measurements(loop.mmt)
    /\ pc' = "returned"
    /\ UNCHANGED <<pauli_arg, raised, scVars, rsVars, anVars, rnVars>>

\* line 98 raises IndexError: mmt_qubits[0] of an empty list
append_measurement_raises ==
    /\ pc = "append_measurement"
    /\ LET st   == StripSign(to_label(pauli_arg))
           loop == BasisLoop(Reverse(st.s), 1, [instrs |-> <<>>, mmt |-> <<>>])
       IN  /\ st.phase = -1 /\ loop.mmt = <<>>
           /\ mmt_qubits' = loop.mmt
           /\ circuit_copy' = loop.instrs
    /\ raised' = "IndexError"
    /\ pc' = "raised"
    /\ UNCHANGED <<pauli_arg, cl, scVars, rsVars, anVars, rnVars>>

NextMeasure == append_measurement \/ append_measurement_raises

SpecMeasure == InitMeasure /\ [][NextMeasure]_vars

(***************************************************************************)
(* analyze_and_print_result(qc, result)                                    *)
(*                                                                         *)
(* A bitstring is a sequence of the characters "0" and "1"; counts maps    *)
(* the bitstrings measured to how often each was measured.  A fidelity is  *)
(* the fraction <<numerator, denominator>>.                                *)
(***************************************************************************)
Bitstrings(k) == [1..k -> {"0", "1"}]

CountDistributions(k) ==
    UNION {[keys -> 1..MaxCount] :
              keys \in {K \in SUBSET Bitstrings(k) : K # {} /\ Cardinality(K) <= MaxKeys}}

\* int(c) of a character of a bitstring
IntOf(c) == IF c = "1" THEN 1 ELSE 0

RECURSIVE SumDigits(_, _)
\* sum(list(map(int, key))), from position i on
SumDigits(key, i) == IF i > Len(key) THEN 0 ELSE IntOf(key[i]) + SumDigits(key, i + 1)

\* Parity that looks at the last character alone
Parity_LastDigit(key) == IF Len(key) = 0 THEN 0 ELSE IntOf(key[Len(key)]) % 2

\* line 133
Parity(key) == SumDigits(key, 1) % 2

\* f'{parity}'
ParityKey(parity) == IF parity = 0 THEN "0" ELSE "1"

RECURSIVE ParityLoop(_, _, _)
\* lines 132-134: the loop over counts.items(), the keys left still to come
ParityLoop(cnt, left, dist) ==
    IF left = {} THEN dist
    ELSE LET key == CHOOSE k \in left : TRUE
             bucket == ParityKey(Parity(key))
         IN  ParityLoop(cnt, left \ {key}, [dist EXCEPT ![bucket] = @ + cnt[key]])

\* metrics.polarization_fidelity(exp_dist, ideal_dist) for an ideal
\* distribution that gives one outcome probability 1: with p the share of
\* exp_dist on that outcome, max(0, (p - 0.5) / (1 - 0.5)) = max(0, (2p - 1))
polarization_fidelity(dist, ideal) ==
    LET total == dist["0"] + dist["1"]
        hit   == dist["0"] * ideal["0"] + dist["1"] * ideal["1"]
    IN  <<IF 2 * hit - total > 0 THEN 2 * hit - total ELSE 0, total>>

InitAnalyze ==
    /\ pc = "analyze_and_print_result"
    /\ \E k \in 0..MaxBits : counts \in CountDistributions(k)
    /\ shots \in 1..MaxShots
    /\ exp_dist = <<>>
    /\ fidelity = <<>>
    /\ IdleCircuit /\ IdleSampler /\ IdleMeasure /\ IdleRun

\* analyze_and_print_result that compares the counts with the declared shots
analyze_and_print_result_checked ==
    /\ pc = "analyze_and_print_result"
    /\ LET dist == ParityLoop(counts, DOMAIN counts, [b \in {"0", "1"} |-> 0])
       IN  IF dist["0"] + dist["1"] # shots
           THEN /\ pc' = "raised"
                /\ UNCHANGED <<exp_dist, fidelity>>
           ELSE /\ pc' = "returned"
                /\ exp_dist' = dist
                /\ fidelity' = polarization_fidelity(dist, [b \in {"0", "1"} |-> IF b = "0" THEN 1 ELSE 0])
    /\ UNCHANGED <<counts, shots, scVars, rsVars, amVars, rnVars>>

\* lines 119-140; the declared shots are not read (line 123 is a comment)
analyze_and_print_result ==
    /\ pc = "analyze_and_print_result"
    /\ LET ideal_dist == [b \in {"0", "1"} |-> IF b = "0" THEN 1 ELSE 0]
           dist == ParityLoop(counts, DOMAIN counts, [b \in {"0", "1"} |-> 0])
       IN  /\ exp_dist' = dist
           /\ fidelity' = polarization_fidelity(dist, ideal_dist)
    /\ pc' = "returned"
    /\ UNCHANGED <<counts, shots, scVars, rsVars, amVars, rnVars>>

NextAnalyze == analyze_and_print_result

SpecAnalyze == InitAnalyze /\ [][NextAnalyze]_vars

(***************************************************************************)
(* run(min_qubits, max_qubits, max_circuits, ...)                          *)
(*                                                                         *)
(* log holds the calls made to the execution module ex, in order; a call   *)
(* is [op, num_qubits, id], with -1 for an argument the call does not have.*)
(***************************************************************************)
Call(op, n, id) == [op |-> op, num_qubits |-> n, id |-> id]

RunArguments ==
    [min_qubits : 0..MaxRunQubits, max_qubits : 0..MaxRunQubits, max_circuits : 0..MaxCircuits]

\* AtLeastTwo that lets every number through
AtLeastTwo_Unchecked(n) == n

\* lines 152-153: max(2, n)
AtLeastTwo(n) == IF n > 2 THEN n ELSE 2

InitRun ==
    /\ pc = "run"
    /\ run_args \in RunArguments
    /\ min_qubits = run_args.min_qubits
    /\ max_qubits = run_args.max_qubits
    /\ run_n = 0 /\ run_j = 0 /\ log = <<>>
    /\ IdleCircuit /\ IdleSampler /\ IdleMeasure /\ IdleAnalyze

\* lines 149-178: the parameters are validated, the execution module is
\* initialised, and the loop over range(min_qubits, max_qubits + 1) starts
RunBegin ==
    /\ pc = "run"
    /\ max_qubits' = AtLeastTwo(max_qubits)
    /\ min_qubits' = AtLeastTwo(min_qubits)
    /\ log' = log \o <<Call("init_execution", -1, -1), Call("set_execution_target", -1, -1)>>
    /\ run_n' = min_qubits'
    /\ run_j' = 0
    /\ pc' = "circuits"
    /\ UNCHANGED <<run_args, scVars, rsVars, amVars, anVars>>

\* lines 185-193: circuit j of the size is built and submitted
SubmitCircuit ==
    /\ pc = "circuits"
    /\ run_n < max_qubits + 1
    /\ run_j < run_args.max_circuits
    /\ log' = Append(log, Call("submit_circuit", run_n, run_j))
    /\ run_j' = run_j + 1
    /\ UNCHANGED <<pc, run_args, min_qubits, max_qubits, run_n, scVars, rsVars, amVars, anVars>>

\* line 196, after the circuits of the size, then the next size
ThrottleExecution ==
    /\ pc = "circuits"
    /\ run_n < max_qubits + 1
    /\ ~(run_j < run_args.max_circuits)
    /\ log' = Append(log, Call("throttle_execution", -1, -1))
    /\ run_n' = run_n + 1
    /\ run_j' = 0
    /\ UNCHANGED <<pc, run_args, min_qubits, max_qubits, scVars, rsVars, amVars, anVars>>

\* lines 199-205, after the last size
FinalizeExecution ==
    /\ pc = "circuits"
    /\ ~(run_n < max_qubits + 1)
    /\ log' = Append(log, Call("finalize_execution", -1, -1))
    /\ pc' = "done"
    /\ UNCHANGED <<run_args, min_qubits, max_qubits, run_n, run_j, scVars, rsVars, amVars, anVars>>

NextRun ==
    \/ RunBegin
    \/ SubmitCircuit
    \/ ThrottleExecution
    \/ FinalizeExecution

SpecRun == InitRun /\ [][NextRun]_vars

(***************************************************************************)
(* Properties of StabilizerCircuit (checked under SpecCircuit).            *)
(***************************************************************************)
IsTwoQubitGate(g) == g.op \in {"cz", "clifford2"}

RECURSIVE LayersUpTo(_)
\* the first i instructions of the circuit read as layers: a layer starts at
\* the barrier that follows its single-qubit gates and is complete at its
\* second barrier.  bars counts the barriers, edges[k] lists the edges that
\* received a two-qubit gate in layer k, in order.
LayersUpTo(i) ==
    IF i = 0 THEN [bars |-> 0, edges |-> <<>>]
    ELSE LET r == LayersUpTo(i - 1)
             g == circuit[i]
         IN  IF g.op = "barrier"
             THEN [bars  |-> r.bars + 1,
                   edges |-> IF r.bars % 2 = 0 THEN Append(r.edges, <<>>) ELSE r.edges]
             ELSE IF IsTwoQubitGate(g) /\ Len(r.edges) > 0
             THEN [r EXCEPT !.edges[Len(r.edges)] = Append(@, g.qubits)]
             ELSE r

\* C1: in every layer the edges that received a two-qubit operation are
\* edges of the coupling graph no two of which share a qubit, and once the
\* loop of the layer has ended every edge of the coupling graph shares a
\* qubit with one of them.
C1_MaximalMatching ==
    LET layers == LayersUpTo(Len(circuit)) IN
    \A k \in 1..Len(layers.edges) :
        LET chosen == layers.edges[k] IN
        /\ \A i \in 1..Len(chosen) : chosen[i] \in coupling_graph
        /\ \A i, j \in 1..Len(chosen) : i < j => chosen[i] \cap chosen[j] = {}
        /\ (layers.bars >= 2 * k \/ (pc = "edges" /\ cg_temp = {})) =>
              \A e \in coupling_graph : \E i \in 1..Len(chosen) : e \cap chosen[i] # {}

\* two layers of two edges each over a graph with an edge left out of both
C1_Witness ==
    LET layers == LayersUpTo(Len(circuit)) IN
    /\ pc = "returned"
    /\ Len(layers.edges) = 2
    /\ Len(layers.edges[1]) = 2 /\ Len(layers.edges[2]) = 2
    /\ \E e \in coupling_graph :
          \A i \in 1..2 : e # layers.edges[1][i] /\ e # layers.edges[2][i]

\* the edges handed in that name a qubit outside range(num_qubits)
InvalidEdges ==
    IF graph_arg.none THEN {}
    ELSE {e \in graph_arg.edges : ~(e[1] \in 0..(num_qubits - 1) /\ e[2] \in 0..(num_qubits - 1))}

\* C6 as stated: a coupling graph with an edge outside the qubit range makes
\* the call fail; no circuit is returned.
C6_InvalidTopologyFails ==
    InvalidEdges # {} => pc # "returned"

\* C6 as amended: the edges outside the qubit range are dropped; the layers
\* are built over the other edges, no gate touches a qubit outside the
\* range, and the call goes on until it returns the circuit.
C6_InvalidEdgesDropped ==
    (InvalidEdges # {} /\ pc # "StabilizerCircuit") =>
        /\ coupling_graph = {Frozenset(e) : e \in graph_arg.edges \ InvalidEdges}
        /\ \A i \in 1..Len(circuit) : circuit[i].qubits \subseteq 0..(num_qubits - 1)
        /\ \A i \in 1..Len(circuit) :
              IsTwoQubitGate(circuit[i]) =>
                  \E e \in graph_arg.edges \ InvalidEdges : circuit[i].qubits = Frozenset(e)
        /\ (pc = "returned" \/ ENABLED NextCircuit)

\* a circuit was returned for a graph with an edge in range and one outside
C6_Witness ==
    /\ pc = "returned"
    /\ InvalidEdges # {}
    /\ \E i \in 1..Len(circuit) : IsTwoQubitGate(circuit[i])

(***************************************************************************)
(* Properties of random_stabilizer (checked under SpecSampler).             *)
(***************************************************************************)
\* the generators selected by the 1-bits of the n-bit binary form of k, the
\* most significant bit selecting generator 1
SelectedGenerators(k, n) == {idx \in 1..n : (k \div Pow2(n - idx)) % 2 = 1}

\* C8: for every Clifford on n >= 2 qubits with n independent stabilizer
\* generators, random_stabilizer draws m in [1, 2^n - 1], returns the product
\* of exactly the generators selected by the 1-bits of m's n-bit binary
\* form, and the returned Pauli has a symbol that is not I.
C8_SamplerNeverIdentity ==
    pc = "returned" =>
        LET n == cliff.num_qubits IN
        /\ m \in 1..(Pow2(n) - 1)
        /\ stabilizer = SubsetProduct(cliff.stabilizer, SelectedGenerators(m, n), n)
        /\ \E q \in 1..n : stabilizer.sym[q] # "I"

\* a product of several generators, one of them negative, was returned
C8_Witness ==
    /\ pc = "returned"
    /\ Cardinality(SelectedGenerators(m, cliff.num_qubits)) >= 2
    /\ \E i \in SelectedGenerators(m, cliff.num_qubits) : cliff.stabilizer[i].phase = 2
    /\ \E q \in 1..cliff.num_qubits : stabilizer.sym[q] = "I"

(***************************************************************************)
(* Properties of append_measurement (checked under SpecMeasure).            *)
(***************************************************************************)
SignedArg == pauli_arg.phase \in {0, 2}

\* the qubits whose symbol is X, Y or Z
NonIdentityQubits == {q \in 0..(Len(pauli_arg.sym) - 1) : pauli_arg.sym[q + 1] # "I"}

IsMeasureInstr(ins) == ins.op = "measure"

IsBasisInstr(ins) == ins.op \in {"h", "sdg"}

MinOf(S) == CHOOSE x \in S : \A y \in S : x <= y

\* C2: for a signed Pauli string with a symbol that is not I, the call
\* returns; as many qubits are measured as there are non-identity symbols;
\* the measured qubits are the qubits of those symbols in increasing order;
\* the i-th measurement writes classical bit i, so the classical bits used
\* are exactly 0..k-1 of a register of size k.
C2_MeasuredQubits ==
    (pc # "append_measurement" /\ SignedArg /\ NonIdentityQubits # {}) =>
        /\ pc = "returned"
        /\ LET ms == SelectSeq(circuit_copy, IsMeasureInstr)
               k  == Cardinality(NonIdentityQubits)
           IN  /\ Len(ms) = k
               /\ Len(mmt_qubits) = k
               /\ cl = k
               /\ {ms[i].qubit : i \in 1..k} = NonIdentityQubits
               /\ \A i, j \in 1..k : i < j => ms[i].qubit < ms[j].qubit
               /\ \A i \in 1..k : ms[i].clbit = i - 1 /\ ms[i].qubit = mmt_qubits[i]

\* a string with an I below two measured qubits: qubit and classical bit differ
C2_Witness ==
    /\ pc = "returned" /\ SignedArg
    /\ Len(pauli_arg.sym) = 3
    /\ pauli_arg.sym[1] = "I" /\ pauli_arg.sym[2] = "Z" /\ pauli_arg.sym[3] = "X"
    /\ Len(SelectSeq(circuit_copy, IsMeasureInstr)) = 2

\* the basis change of a symbol, as the names of its instructions
ExpectedBasisOps(symbol) ==
    CASE symbol = "X" -> <<"h">>
      [] symbol = "Y" -> <<"sdg", "h">>
      [] OTHER -> <<>>

OpsOf(instrs) == [i \in 1..Len(instrs) |-> instrs[i].op]

\* C3: for a signed Pauli string, the h and sdg instructions appended to a
\* qubit are the basis change of its symbol (none for I and Z, h for X, sdg
\* then h for Y), no other qubit gets one, and every one of them precedes
\* every measurement.
C3_BasisChange ==
    (pc = "returned" /\ SignedArg) =>
        /\ \A q \in 0..(Len(pauli_arg.sym) - 1) :
              LET OnQ(ins) == IsBasisInstr(ins) /\ ins.qubit = q
              IN  OpsOf(SelectSeq(circuit_copy, OnQ)) = ExpectedBasisOps(pauli_arg.sym[q + 1])
        /\ \A i \in 1..Len(circuit_copy) :
              /\ circuit_copy[i].op \in {"h", "sdg", "x", "barrier", "measure"}
              /\ IsBasisInstr(circuit_copy[i]) =>
                    /\ circuit_copy[i].qubit \in 0..(Len(pauli_arg.sym) - 1)
                    /\ \A j \in 1..Len(circuit_copy) :
                          IsMeasureInstr(circuit_copy[j]) => i < j

\* a string with X, Y and Z was rewritten
C3_Witness ==
    /\ pc = "returned" /\ SignedArg
    /\ {pauli_arg.sym[q] : q \in 1..Len(pauli_arg.sym)} = {"X", "Y", "Z"}
    /\ Len(SelectSeq(circuit_copy, IsBasisInstr)) = 3

\* C4: for a signed Pauli string with a symbol that is not I: when the sign
\* is negative exactly one x instruction is appended, on the first measured
\* qubit and before the measurement of that qubit; when the sign is positive
\* no x instruction is appended.
C4_SignFlip ==
    (pc = "returned" /\ SignedArg /\ NonIdentityQubits # {}) =>
        LET xs == {i \in 1..Len(circuit_copy) : circuit_copy[i].op = "x"} IN
        IF pauli_arg.phase = 2
        THEN /\ Cardinality(xs) = 1
             /\ \A i \in xs :
                   /\ circuit_copy[i].qubit = mmt_qubits[1]
                   /\ circuit_copy[i].qubit = MinOf(NonIdentityQubits)
                   /\ \A j \in 1..Len(circuit_copy) :
                         (IsMeasureInstr(circuit_copy[j])
                            /\ circuit_copy[j].qubit = circuit_copy[i].qubit) => i < j
        ELSE xs = {}

\* a negative string with several measured qubits, the first of them not qubit 0
C4_Witness ==
    /\ pc = "returned" /\ pauli_arg.phase = 2
    /\ Cardinality(NonIdentityQubits) >= 2
    /\ 0 \notin NonIdentityQubits
    /\ \E i \in 1..Len(circuit_copy) : circuit_copy[i].op = "x"

\* C5: a signed Pauli string whose symbols are all I ends the call in an
\* error; no circuit without measurements is returned.
C5_EmptyStabilizerIsError ==
    (pc # "append_measurement" /\ SignedArg /\ NonIdentityQubits = {}) =>
        /\ pc = "raised"
        /\ raised # "none"

(***************************************************************************)
(* Properties of analyze_and_print_result (checked under SpecAnalyze).      *)
(***************************************************************************)
\* the number of characters "1" of a bitstring
Popcount(key) == Cardinality({i \in 1..Len(key) : key[i] = "1"})

RECURSIVE TotalOf(_)
\* the sum of the counts of the bitstrings of K
TotalOf(K) ==
    IF K = {} THEN 0
    ELSE LET k == CHOOSE x \in K : TRUE IN counts[k] + TotalOf(K \ {k})

EvenKeys == {k \in DOMAIN counts : Popcount(k) % 2 = 0}

OddKeys == {k \in DOMAIN counts : Popcount(k) % 2 = 1}

\* C9: the count of every bitstring of even popcount is added to the even
\* bucket and that of every other bitstring to the odd bucket, the buckets
\* sum to the total, and the fidelity returned is max(0, (p_even - 0.5) / 0.5)
\* with p_even = even bucket / total: 1 when every bitstring is even, 0 when
\* every bitstring is odd.
C9_ParityFidelity ==
    pc = "returned" =>
        LET even  == TotalOf(EvenKeys)
            total == TotalOf(DOMAIN counts)
        IN  /\ exp_dist["0"] = even
            /\ exp_dist["1"] = TotalOf(OddKeys)
            /\ exp_dist["0"] + exp_dist["1"] = total
            /\ fidelity[2] = total
            /\ fidelity[1] = (IF 2 * even > total THEN 2 * even - total ELSE 0)
            /\ OddKeys = {} => fidelity[1] = fidelity[2]
            /\ EvenKeys = {} => fidelity[1] = 0

\* a distribution with even and odd bitstrings, mostly even, was analysed
C9_Witness ==
    /\ pc = "returned"
    /\ Cardinality(EvenKeys) >= 2 /\ OddKeys # {}
    /\ \E k \in EvenKeys : Popcount(k) = 2
    /\ 0 < fidelity[1] /\ fidelity[1] < fidelity[2]

\* C7 as stated: counts that do not sum to the declared shots make the call
\* fail; no fidelity is returned.
C7_ShotCountMismatchFails ==
    (pc # "analyze_and_print_result" /\ TotalOf(DOMAIN counts) # shots) =>
        /\ pc = "raised"
        /\ fidelity = <<>>

\* C7 as amended: counts that do not sum to the declared shots are analysed
\* like any other: the call returns, the buckets sum to the total of the
\* counts, and a fidelity over that total is returned.
C7_MismatchTolerated ==
    (pc # "analyze_and_print_result" /\ TotalOf(DOMAIN counts) # shots) =>
        /\ pc = "returned"
        /\ exp_dist["0"] + exp_dist["1"] = TotalOf(DOMAIN counts)
        /\ fidelity # <<>>
        /\ fidelity[2] = TotalOf(DOMAIN counts)

\* a fidelity was returned for counts that sum to more than the declared shots
C7_Witness ==
    /\ pc = "returned"
    /\ TotalOf(DOMAIN counts) > shots
    /\ fidelity # <<>>

(***************************************************************************)
(* Properties of run (checked under SpecRun).                              *)
(***************************************************************************)
\* the calls that submit, throttle and finalize, in order
IsHarnessCall(c) == c.op \in {"submit_circuit", "throttle_execution", "finalize_execution"}

HarnessLog == SelectSeq(log, IsHarnessCall)

LowestSize == IF run_args.min_qubits > 2 THEN run_args.min_qubits ELSE 2

HighestSize == IF run_args.max_qubits > 2 THEN run_args.max_qubits ELSE 2

\* the calls of one size: max_circuits submissions, then one throttle
CallsOfSize(n) ==
    [j \in 1..run_args.max_circuits |-> Call("submit_circuit", n, j - 1)]
        \o <<Call("throttle_execution", -1, -1)>>

RECURSIVE CallsFrom(_)
\* the calls of the sizes n..HighestSize in increasing order, then finalize
CallsFrom(n) ==
    IF n > HighestSize THEN <<Call("finalize_execution", -1, -1)>>
    ELSE CallsOfSize(n) \o CallsFrom(n + 1)

IsPrefix(a, b) == Len(a) <= Len(b) /\ a = SubSeq(b, 1, Len(a))

\* C10: circuits are submitted only for sizes n with
\* 2 <= max(2, min_qubits) <= n <= max(2, max_qubits); the sizes are taken
\* in increasing order, each with submissions 0..max_circuits-1 followed by
\* one throttle before the next size; finalize is called once, after every
\* submission and throttle, and the run ends with it.
C10_RunOrder ==
    /\ \A i \in 1..Len(log) :
          log[i].op = "submit_circuit" =>
              /\ 2 <= log[i].num_qubits
              /\ LowestSize <= log[i].num_qubits /\ log[i].num_qubits <= HighestSize
              /\ log[i].id \in 0..(run_args.max_circuits - 1)
    /\ IsPrefix(HarnessLog, CallsFrom(LowestSize))
    /\ pc = "done" <=> (HarnessLog # <<>> /\ HarnessLog[Len(HarnessLog)].op = "finalize_execution")
    /\ pc = "done" => HarnessLog = CallsFrom(LowestSize)

\* a finished run over several sizes with several circuits each, one of its
\* arguments below 2
C10_Witness ==
    /\ pc = "done"
    /\ run_args.min_qubits < 2
    /\ run_args.max_qubits >= 3
    /\ run_args.max_circuits >= 2
    /\ Len(HarnessLog) = 7

====
